---- MODULE Spec2Model ----
(***************************************************************************)
(* TensrNEXT: the metadata / view layer of the tensor library.            *)
(*                                                                         *)
(* A TensorMetadata value (shape, strides, offset, totalSize, rank,        *)
(* isContiguous) is constructed from a shape and then handed to the view   *)
(* transformations of namespace NextShapeUtils (NextSlice, NextReshape,    *)
(* NextPermute, NextTranspose, NextSqueeze, NextUnsqueeze), each of which  *)
(* returns a new metadata or throws.  The state of the model is the        *)
(* metadata the caller holds together with the call made on it: its name,  *)
(* its arguments, how it ended and the metadata it returned.               *)
(*                                                                         *)
(* Vectors are 1-based sequences here; axis numbers and permutation        *)
(* entries keep the 0-based values of the source, so the source's vec[k]   *)
(* is vec[k + 1] below.  All size_t values of the model stay far below     *)
(* 2^64, so the only place where the width of size_t matters is the        *)
(* `vec.size() - 1` of NextReverse, which wraps for an empty vector.       *)
(***************************************************************************)
EXTENDS Integers, Sequences, FiniteSets, TLC

(* ------------------------------ bounds -------------------------------- *)

\* Largest rank of a constructed metadata and of a metadata that is
\* transformed further.
MaxRank == 3

\* Largest size of one dimension of a constructed shape.
MaxDim == 2

\* The offset of a constructed metadata.
MaxOffset == 1

VARIABLES
    md,      \* the TensorMetadata the caller holds
    op,      \* the call in progress on md, "hold" between calls
    a1,      \* its first vector argument (start, newShape, permutation, axes)
    a2,      \* its second vector argument (end)
    status,  \* how the call ended
    out      \* the TensorMetadata the call returned (md itself between calls)

vars == <<md, op, a1, a2, status, out>>

(* ------------------------ NextUtils.hpp ------------------------------- *)

\* ComputeStrides, runtime version: strides(N, 1), then from the last but
\* one dimension down strides[i] = strides[i + 1] * shape[i + 1].
ComputeStrides(shape) ==
    LET N == Len(shape)
        s[i \in 1..N] == IF i = N THEN 1 ELSE s[i + 1] * shape[i + 1]
    IN  IF N = 0 THEN <<>> ELSE [i \in 1..N |-> s[i]]

\* ComputeSize, runtime version: size = 1, then size *= dim for every dim.
RECURSIVE ComputeSize(_)
ComputeSize(shape) ==
    IF shape = <<>> THEN 1 ELSE Head(shape) * ComputeSize(Tail(shape))

\* The loop of the fixed-rank ComputeStrides from position i (0-based)
\* down to 0: strides[i] = strides[i + 1] * shape[i + 1].
RECURSIVE StridesLoop(_, _, _)
StridesLoop(strides, shape, i) ==
    IF i >= 0
    THEN StridesLoop([strides EXCEPT ![i + 1] = strides[i + 2] * shape[i + 2]],
                     shape, i - 1)
    ELSE strides

\* A fixed-rank ComputeStrides that leaves the last stride as the array
\* was initialised.
StaticStridesFromZero(shape) ==
    LET N == Len(shape) IN
    IF N > 0 THEN StridesLoop([i \in 1..N |-> 0], shape, N - 2) ELSE <<>>

\* ComputeStrides<N>, fixed-rank version: the array is value-initialised
\* (all 0); if N > 0 the last stride is set to 1 and the loop runs from
\* int(N - 2) down (for N = 1 the size_t N - 2 converts to -1 and the loop
\* does not run); if N = 0 the empty array is returned.
ComputeStridesStatic(shape) ==
    LET N == Len(shape) IN
    IF N > 0
    THEN StridesLoop([[i \in 1..N |-> 0] EXCEPT ![N] = 1], shape, N - 2)
    ELSE <<>>

\* ComputeSize<N>, fixed-rank version: size = 1; if N > 0, size *= dim
\* over the array.
ComputeSizeStatic(shape) ==
    LET N == Len(shape)
        size[i \in 0..N] == IF i = 0 THEN 1 ELSE size[i - 1] * shape[i]
    IN  IF N > 0 THEN size[N] ELSE 1

\* FlattenIndex, runtime version: FlatIndex += indices[i] * strides[i] over
\* the N = strides.size() positions.
FlattenIndex(strides, indices) ==
    LET N == Len(strides)
        F[i \in 0..N] == IF i = 0 THEN 0 ELSE F[i - 1] + indices[i] * strides[i]
    IN  F[N]

\* An UnflattenIndex that never reduces flatIndex by the part already
\* accounted for.
UnflattenWithoutRemainder(strides, flatIndex) ==
    [i \in 1..Len(strides) |-> flatIndex \div strides[i]]

\* UnflattenIndex, runtime version: for every position in order,
\* indices[i] = flatIndex / strides[i], then flatIndex %= strides[i].
\* Defined when no stride is 0.
UnflattenIndex(strides, flatIndex) ==
    LET N == Len(strides)
        rem[i \in 0..N] == IF i = 0 THEN flatIndex ELSE rem[i - 1] % strides[i]
    IN  [i \in 1..N |-> rem[i - 1] \div strides[i]]

\* Both statements of the loop divide by strides[i]: a stride of 0 is an
\* integer division by zero (undefined).
UnflattenDividesByZero(strides) == \E i \in 1..Len(strides) : strides[i] = 0

\* std::swap(vec[left], vec[right]) on 1-based positions.
SwapAt(vec, left, right) ==
    [vec EXCEPT ![left] = vec[right], ![right] = vec[left]]

\* The loop of NextReverse: while (left < right) swap, ++left, --right.
RECURSIVE ReverseLoop(_, _, _)
ReverseLoop(vec, left, right) ==
    IF left < right
    THEN ReverseLoop(SwapAt(vec, left, right), left + 1, right - 1)
    ELSE vec

\* `size_t right = vec.size() - 1` wraps to SIZE_MAX when the vector is
\* empty; the loop condition 0 < SIZE_MAX then holds and the body indexes
\* an empty vector.
NextReverseWraps(vec) == Len(vec) = 0

\* NextReverse on a non-empty vector.
NextReverse(vec) == ReverseLoop(vec, 1, Len(vec))

(* ------------------------ TensorMetadata ------------------------------ *)

\* A TensorMetadata(shape, offset) that takes the total size of the empty
\* shape to be 0.
FromShapeEmptyIsZero(shape, offset) ==
    [shape        |-> shape,
     strides      |-> ComputeStrides(shape),
     offset       |-> offset,
     totalSize    |-> IF shape = <<>> THEN 0 ELSE ComputeSize(shape),
     rank         |-> Len(shape),
     isContiguous |-> TRUE]

\* TensorMetadata(shape, offset): canonical strides, isContiguous_ = true.
TensorMetadataFromShape(shape, offset) ==
    [shape        |-> shape,
     strides      |-> ComputeStrides(shape),
     offset       |-> offset,
     totalSize    |-> ComputeSize(shape),
     rank         |-> Len(shape),
     isContiguous |-> TRUE]

\* TensorMetadata(shape, stride, offset): strides verbatim,
\* isContiguous_ = true.
TensorMetadataFromStrides(shape, stride, offset) ==
    [shape        |-> shape,
     strides      |-> stride,
     offset       |-> offset,
     totalSize    |-> ComputeSize(shape),
     rank         |-> Len(shape),
     isContiguous |-> TRUE]

\* SetContiguous(contiguous): the only mutator.
SetContiguousOf(Metadata, contiguous) ==
    [Metadata EXCEPT !.isContiguous = contiguous]

(* --------------------- outcomes of one call --------------------------- *)

\* The call returned the metadata m.
Returned(m) == [status |-> "ok", md |-> m]

\* The call threw the exception e; the caller's metadata is untouched.
Threw(e, Metadata) == [status |-> e, md |-> Metadata]

\* Undefined behaviour ended the process.
Crashed(Metadata) == [status |-> "crash", md |-> Metadata]

\* Undefined behaviour went unnoticed and the call returned m.
ReturnedAfterUB(m) == [status |-> "ub", md |-> m]

(* ------------------------ NextShapeUtils ------------------------------ *)

\* A NextSlice that checks the lengths of the index vectors and nothing else.
SliceWithoutBoundsCheck(Metadata, startIndices, endIndices) ==
    LET N == Len(Metadata.shape) IN
    IF Len(startIndices) # N \/ Len(endIndices) # N
    THEN Threw("invalid_argument", Metadata)
    ELSE Returned(TensorMetadataFromShape(
             [i \in 1..N |-> endIndices[i] - startIndices[i]], Metadata.offset))

\* NextSlice.  Both index vectors must have the rank's length
\* (invalid_argument); every dimension must satisfy start < end,
\* start < shape and end <= shape (out_of_range).  The loop fills newShape
\* and a local newStrides, and the function returns
\* TensorMetadata(newShape, Metadata.GetOffset()): the two-argument
\* constructor, which never sees newStrides.
NextSlice(Metadata, startIndices, endIndices) ==
    LET N == Len(Metadata.shape) IN
    IF Len(startIndices) # N \/ Len(endIndices) # N
    THEN Threw("invalid_argument", Metadata)
    ELSE IF \E i \in 1..N :
                \/ startIndices[i] >= endIndices[i]
                \/ startIndices[i] >= Metadata.shape[i]
                \/ endIndices[i] > Metadata.shape[i]
    THEN Threw("out_of_range", Metadata)
    ELSE LET newShape == [i \in 1..N |-> endIndices[i] - startIndices[i]]
         IN  Returned(TensorMetadataFromShape(
                 IF N = 0 THEN <<>> ELSE newShape, Metadata.offset))

\* A NextReshape without the comparison of the two sizes.
ReshapeUnchecked(Metadata, newShape) ==
    Returned(TensorMetadataFromShape(newShape, Metadata.offset))

\* NextReshape.  newSize is the product of newShape (1 when empty) and must
\* equal GetTotalSize(); the result is TensorMetadata(newShape, offset).
NextReshape(Metadata, newShape) ==
    IF Metadata.totalSize # ComputeSize(newShape)
    THEN Threw("invalid_argument", Metadata)
    ELSE Returned(TensorMetadataFromShape(newShape, Metadata.offset))

\* What an out-of-bounds read `originalShape[newIndex]` may yield when it
\* does not fault: a sample of arbitrary size_t values.
GarbageVals == {0, MaxDim + 1}

\* The entries of a permutation that index past the end of the vectors.
OutOfRangeEntries(Metadata, permutation) ==
    {permutation[i] : i \in 1..Len(permutation)} \ (0..(Metadata.rank - 1))

\* The custom-permutation loop of NextPermute, with gs / gt giving the
\* values read at out-of-range positions of originalShape / originalStrides.
PermuteLoop(Metadata, permutation, gs, gt) ==
    LET n == Len(permutation)
        newShape == [i \in 1..n |->
                        IF permutation[i] < Len(Metadata.shape)
                        THEN Metadata.shape[permutation[i] + 1]
                        ELSE gs[permutation[i]]]
        newStrides == [i \in 1..n |->
                        IF permutation[i] < Len(Metadata.strides)
                        THEN Metadata.strides[permutation[i] + 1]
                        ELSE gt[permutation[i]]]
    IN  TensorMetadataFromStrides(newShape, newStrides, Metadata.offset)

\* A NextPermute that ignores the permutation it is given and returns the
\* metadata as it is.
PermuteIgnoringOrder(Metadata, permutation) ==
    IF permutation # <<>> /\ Len(permutation) # Len(Metadata.shape)
    THEN {Threw("invalid_argument", Metadata)}
    ELSE {Returned(TensorMetadataFromStrides(Metadata.shape, Metadata.strides,
                                             Metadata.offset))}

\* NextPermute: the set of ways the call can end.
\*  - empty permutation: both vectors are reversed by NextReverse; on a
\*    rank-0 metadata NextReverse indexes an empty vector (undefined).
\*  - otherwise the length must equal the rank (invalid_argument); the
\*    entries themselves are not checked, so a duplicate is copied twice
\*    and an entry >= rank is an out-of-bounds read (undefined).
NextPermute(Metadata, permutation) ==
    IF permutation = <<>>
    THEN IF NextReverseWraps(Metadata.shape)
         THEN {Crashed(Metadata),
               ReturnedAfterUB(TensorMetadataFromStrides(<<>>, <<>>, Metadata.offset))}
         ELSE {Returned(TensorMetadataFromStrides(NextReverse(Metadata.shape),
                                                  NextReverse(Metadata.strides),
                                                  Metadata.offset))}
    ELSE IF Len(permutation) # Len(Metadata.shape)
    THEN {Threw("invalid_argument", Metadata)}
    ELSE LET bad == OutOfRangeEntries(Metadata, permutation) IN
         IF bad = {}
         THEN {Returned(PermuteLoop(Metadata, permutation, <<>>, <<>>))}
         ELSE {Crashed(Metadata)} \cup
              {ReturnedAfterUB(PermuteLoop(Metadata, permutation, gs, gt)) :
                   gs \in [bad -> GarbageVals], gt \in [bad -> GarbageVals]}

\* NextTranspose: NextPermute with the default (empty) permutation.
NextTranspose(Metadata) == NextPermute(Metadata, <<>>)

\* The shape with every position but `axis` (0-based) kept: the inner loop
\* of NextSqueeze.
AllButAxis(shape, axis) ==
    LET keep == {i \in 1..Len(shape) : i # axis + 1}
        F[i \in 0..Len(shape)] ==
            IF i = 0 THEN <<>>
            ELSE IF i \in keep THEN Append(F[i - 1], shape[i]) ELSE F[i - 1]
    IN  F[Len(shape)]

\* The outer loop of NextSqueeze over the given axes: every axis appends a
\* whole copy of the shape without that axis to the one newShape.
RECURSIVE SqueezeLoop(_, _)
SqueezeLoop(shape, axes) ==
    IF axes = <<>> THEN <<>>
    ELSE AllButAxis(shape, Head(axes)) \o SqueezeLoop(shape, Tail(axes))

\* The shape without its size-1 dimensions: the loop of the no-axes branch.
DropOnes(shape) ==
    LET F[i \in 0..Len(shape)] ==
            IF i = 0 THEN <<>>
            ELSE IF shape[i] = 1 THEN F[i - 1] ELSE Append(F[i - 1], shape[i])
    IN  F[Len(shape)]

\* A NextSqueeze that validates the first listed axis only.
SqueezeCheckingFirstAxis(Metadata, axes) ==
    IF axes # <<>>
    THEN IF \/ Head(axes) >= Metadata.rank
            \/ Metadata.shape[Head(axes) + 1] # 1
         THEN Threw("invalid_argument", Metadata)
         ELSE Returned(TensorMetadataFromShape(
                  SqueezeLoop(Metadata.shape, <<Head(axes)>>), Metadata.offset))
    ELSE Returned(TensorMetadataFromShape(DropOnes(Metadata.shape), Metadata.offset))

\* NextSqueeze.  With axes: each axis must be < rank and of size 1
\* (invalid_argument, thrown when the loop reaches the axis); the result is
\* TensorMetadata(newShape, offset).  Without axes: every size-1 dimension
\* is dropped.  newStrides is declared and never filled in either branch.
NextSqueeze(Metadata, axes) ==
    IF axes # <<>>
    THEN IF \E k \in 1..Len(axes) :
                \/ axes[k] >= Metadata.rank
                \/ Metadata.shape[axes[k] + 1] # 1
         THEN Threw("invalid_argument", Metadata)
         ELSE Returned(TensorMetadataFromShape(SqueezeLoop(Metadata.shape, axes),
                                               Metadata.offset))
    ELSE Returned(TensorMetadataFromShape(DropOnes(Metadata.shape), Metadata.offset))

\* newShape.insert(newShape.begin() + axis, 1)
InsertOne(shape, axis) ==
    SubSeq(shape, 1, axis) \o <<1>> \o SubSeq(shape, axis + 1, Len(shape))

\* The check inside the loop of NextUnsqueeze: the axes are taken in the
\* order given, each compared with the size of the shape as grown so far
\* (`size` here); TRUE when `axis > newShape.size()` throws for some axis.
RECURSIVE UnsqueezeThrows(_, _)
UnsqueezeThrows(size, axes) ==
    IF axes = <<>> THEN FALSE
    ELSE Head(axes) > size \/ UnsqueezeThrows(size + 1, Tail(axes))

\* The loop of NextUnsqueeze when no axis throws: each axis is inserted
\* into the shape as grown so far.
RECURSIVE UnsqueezeLoop(_, _)
UnsqueezeLoop(newShape, axes) ==
    IF axes = <<>> THEN newShape
    ELSE UnsqueezeLoop(InsertOne(newShape, Head(axes)), Tail(axes))

\* NextUnsqueeze: TensorMetadata(newShape, offset) of the grown shape; the
\* copied newStrides is never used.
NextUnsqueeze(Metadata, axes) ==
    IF UnsqueezeThrows(Len(Metadata.shape), axes)
    THEN Threw("invalid_argument", Metadata)
    ELSE Returned(TensorMetadataFromShape(UnsqueezeLoop(Metadata.shape, axes),
                                          Metadata.offset))

(* ------------------------ inputs of the calls ------------------------- *)

\* The shapes a metadata is constructed from and reshaped to.
Shapes == UNION {[1..k -> 0..MaxDim] : k \in 0..MaxRank}

\* The offset a metadata is constructed with: a positive one, which no
\* default can produce by accident.
Offsets == {MaxOffset}

\* 0, 1, ..., n - 1 as a vector.
IotaVec(n) == [i \in 1..n |-> i - 1]

\* The start of the full-range slice of a shape (its end is the shape).
Zeros(shape) == [i \in 1..Len(shape) |-> 0]

\* The <<start, end>> pairs a dimension of size d admits, and the ones tried
\* that it does not: start = end, start > end, end past the dimension.
GoodBounds(d) == {se \in (0..d) \X (0..d) : se[1] < se[2]}
BadBounds(d) == {<<0, 0>>, <<d, d>>, <<1, 0>>, <<0, d + 1>>, <<d, d + 1>>}

\* The valid slices tried on a shape, as vectors of per-dimension
\* <<start, end>> pairs: the full range, narrowed in at most two dimensions
\* to any pair the dimension admits.  A shape with an empty dimension has
\* no valid slice.
ValidBounds(shape) ==
    LET N == Len(shape)
        full == [i \in 1..N |-> <<0, shape[i]>>]
    IN  IF \E i \in 1..N : shape[i] = 0 THEN {}
        ELSE {full} \cup
             UNION {{[full EXCEPT ![jk[1]] = b, ![jk[2]] = c] :
                        b \in GoodBounds(shape[jk[1]]), c \in GoodBounds(shape[jk[2]])} :
                    jk \in (1..N) \X (1..N)}

\* The <<start, end>> pairs tried on a metadata: the valid slices, the
\* full range with one dimension's bounds replaced by an invalid pair, and
\* vectors one too short or one too long.
SliceInputs(Metadata) ==
    LET shape == Metadata.shape
        N == Len(shape)
        full == [i \in 1..N |-> <<0, shape[i]>>]
        oneOff == UNION {{[full EXCEPT ![k] = b] : b \in BadBounds(shape[k])} : k \in 1..N}
    IN  {<<[i \in 1..N |-> se[i][1]], [i \in 1..N |-> se[i][2]]>> :
            se \in ValidBounds(shape) \cup oneOff}
        \cup {<<Zeros(shape) \o <<0>>, shape \o <<1>> >>, <<Zeros(shape), shape \o <<1>> >>,
              <<Zeros(shape) \o <<0>>, shape>>}
        \cup (IF N = 0 THEN {}
              ELSE {<<Tail(Zeros(shape)), Tail(shape)>>, <<Tail(Zeros(shape)), shape>>})

\* Every multi-index within the shape: indices[i] < shape[i].
RECURSIVE ValidIndices(_)
ValidIndices(shape) ==
    IF shape = <<>> THEN {<<>>}
    ELSE {<<i>> \o rest : i \in 0..(Head(shape) - 1), rest \in ValidIndices(Tail(shape))}

\* The multi-indices flattened on a metadata: the valid ones and the
\* all-zero index, which is not valid when a dimension is empty.
IndexInputs(Metadata) == ValidIndices(Metadata.shape) \cup {Zeros(Metadata.shape)}

\* The bijections of 0..r-1, as vectors.
Bijections(r) ==
    {p \in [1..r -> 0..(r - 1)] : \A i, j \in 1..r : p[i] = p[j] => i = j}

\* The permutations tried on a metadata of rank r: none, every bijection,
\* the identity with its first or its last entry replaced (by a duplicate
\* or by the out-of-range r), and the identities of the neighbouring
\* lengths.
PermuteInputs(Metadata) ==
    LET r == Metadata.rank IN
    {<<>>} \cup Bijections(r)
           \cup {[IotaVec(r) EXCEPT ![k] = v] : k \in {1, r} \cap (1..r), v \in 0..r}
           \cup {IotaVec(r + 1)}
           \cup (IF r = 0 THEN {} ELSE {IotaVec(r - 1)})

\* The axes lists tried: no axis, one axis, and two axes in either order or
\* twice the same, each axis up to `top`.
AxesUpTo(top) ==
    {<<>>} \cup {<<a>> : a \in 0..top} \cup {<<a, b>> : a \in 0..top, b \in 0..top}

\* The shapes a metadata is reshaped to: every shape of rank up to two
\* whatever its size, and every shape of its total size in which no
\* dimension after the first is empty.
ReshapeInputs(Metadata) ==
    {s \in Shapes :
        \/ Len(s) <= 2
        \/ /\ ComputeSize(s) = Metadata.totalSize
           /\ \A i \in 2..Len(s) : s[i] # 0}

(* ----------------------------- actions -------------------------------- *)

\* Between calls: the caller holds md and no call is recorded.
Holding == op = "hold"

\* The state after the call `name(md, x, y)` ended as outcome r.  The
\* transformations take their metadata by const reference: md is untouched.
Ended(name, x, y, r) ==
    /\ op' = name
    /\ a1' = x
    /\ a2' = y
    /\ status' = r.status
    /\ out' = r.md
    /\ UNCHANGED md

\* A metadata constructed from a shape and an offset.
Init ==
    \E shape \in Shapes, offset \in Offsets :
        /\ md = TensorMetadataFromShape(shape, offset)
        /\ op = "hold"
        /\ a1 = <<>>
        /\ a2 = <<>>
        /\ status = "ok"
        /\ out = md

\* The caller clears the contiguity flag of the metadata it holds (setting
\* it is a no-op on a freshly returned metadata, whose flag is true).
SetContiguous ==
    /\ Holding
    /\ md.isContiguous
    /\ md' = SetContiguousOf(md, FALSE)
    /\ out' = md'
    /\ UNCHANGED <<op, a1, a2, status>>

Slice ==
    /\ Holding
    /\ \E se \in SliceInputs(md) :
           Ended("slice", se[1], se[2], NextSlice(md, se[1], se[2]))

Reshape ==
    /\ Holding
    /\ \E newShape \in ReshapeInputs(md) :
           Ended("reshape", newShape, <<>>, NextReshape(md, newShape))

Permute ==
    /\ Holding
    /\ \E permutation \in PermuteInputs(md) :
       \E r \in NextPermute(md, permutation) :
           Ended("permute", permutation, <<>>, r)

Transpose ==
    /\ Holding
    /\ \E r \in NextTranspose(md) :
           Ended("transpose", <<>>, <<>>, r)

Squeeze ==
    /\ Holding
    /\ \E axes \in AxesUpTo(md.rank) :
           Ended("squeeze", axes, <<>>, NextSqueeze(md, axes))

Unsqueeze ==
    /\ Holding
    /\ \E axes \in AxesUpTo(md.rank + 1) :
           Ended("unsqueeze", axes, <<>>, NextUnsqueeze(md, axes))

\* The caller computes the strides and the size of the shape of md with
\* the fixed-rank forms (recorded as a1 and the one-entry a2) and with the
\* variable-rank forms, as the constructor from a shape does (out).
Compute ==
    /\ Holding
    /\ op' = "compute"
    /\ a1' = ComputeStridesStatic(md.shape)
    /\ a2' = <<ComputeSizeStatic(md.shape)>>
    /\ status' = "ok"
    /\ out' = TensorMetadataFromShape(md.shape, md.offset)
    /\ UNCHANGED md

\* The caller computes the flat position of an element of md.  FlattenIndex
\* returns a number: it is recorded as the one-entry vector a2.
Flatten ==
    /\ Holding
    /\ \E indices \in IndexInputs(md) :
           /\ op' = "flatten"
           /\ a1' = indices
           /\ a2' = <<FlattenIndex(md.strides, indices)>>
           /\ status' = "ok"
           /\ out' = md
           /\ UNCHANGED md

\* The caller turns the flat position just computed back into a
\* multi-index, recorded as a2 (a1 keeps the index flattened).  With a
\* stride of 0 the division is undefined: the process ends or goes on with
\* an arbitrary vector.
Unflatten ==
    /\ op = "flatten"
    /\ op' = "unflatten"
    /\ IF UnflattenDividesByZero(md.strides)
       THEN /\ status' \in {"crash", "ub"}
            /\ a2' \in {<<>>, a1}
       ELSE /\ status' = "ok"
            /\ a2' = UnflattenIndex(md.strides, a2[1])
    /\ UNCHANGED <<md, a1, out>>

\* The caller goes on with the metadata a call returned.  A thrown exception
\* is caught nowhere in the library and undefined behaviour leaves nothing to
\* rely on, so only a normal return is continued; a metadata NextPermute
\* built from a vector that is no permutation is not followed further, and
\* the rank guard caps the growth NextSqueeze and NextUnsqueeze can cause.
Continue ==
    /\ ~Holding
    /\ status = "ok"
    /\ out.rank <= MaxRank
    /\ op = "permute" => a1 \in Bijections(md.rank)
    /\ md' = out
    /\ op' = "hold"
    /\ a1' = <<>>
    /\ a2' = <<>>
    /\ UNCHANGED <<status, out>>

Next ==
    \/ SetContiguous
    \/ Slice
    \/ Reshape
    \/ Permute
    \/ Transpose
    \/ Squeeze
    \/ Unsqueeze
    \/ Compute
    \/ Flatten
    \/ Unflatten
    \/ Continue

Spec == Init /\ [][Next]_vars

(* ------------------------------ claims -------------------------------- *)

\* A call of `name` that returned normally.
ReturnedFrom(name) == op = name /\ status = "ok"

\* The strides are the canonical row-major strides of the shape.
Canonical(m) == m.strides = ComputeStrides(m.shape)

\* The vector without the positions (0-based) listed in `axes`.
WithoutAxes(vec, axes) ==
    LET F[i \in 0..Len(vec)] ==
            IF i = 0 THEN <<>>
            ELSE IF (i - 1) \in axes THEN F[i - 1] ELSE Append(F[i - 1], vec[i])
    IN  F[Len(vec)]

\* The entries of a vector, as a set.
Range(vec) == {vec[i] : i \in 1..Len(vec)}

\* No entry of the vector occurs twice.
Distinct(vec) == \A i, j \in 1..Len(vec) : vec[i] = vec[j] => i = j

\* The entries of the vector grow strictly.
Ascending(vec) == \A i, j \in 1..Len(vec) : i < j => vec[i] < vec[j]

\* The 0-based positions of the size-1 dimensions of a shape, ascending.
UnitAxes(shape) ==
    LET F[i \in 0..Len(shape)] ==
            IF i = 0 THEN <<>>
            ELSE IF shape[i] = 1 THEN Append(F[i - 1], i - 1) ELSE F[i - 1]
    IN  F[Len(shape)]

\* The inverse of a bijection p of 0..r-1: q[p[i]] = i.
Inverse(p) ==
    [j \in 1..Len(p) |-> (CHOOSE i \in 1..Len(p) : p[i] = j - 1) - 1]

\* C1: a slice that returns has offset m.offset + sum of start[i] *
\* m.strides[i], so that its element (0,...,0) is element `start` of m.
C1_SliceShiftsOffset ==
    ReturnedFrom("slice") => out.offset = md.offset + FlattenIndex(md.strides, a1)

\* C2: a slice that returns has the strides of m, position by position.
C2_SliceInheritsStrides ==
    ReturnedFrom("slice") => out.strides = md.strides

\* C3: the contiguity flag of every metadata a transformation returns
\* (NextPermute given a bijection) is true exactly when its strides are the
\* canonical strides of its shape; so a permutation other than the identity
\* of a contiguous metadata with distinct strides returns a cleared flag.
C3_FlagIffCanonical ==
    /\ (/\ status = "ok"
        /\ op \in {"slice", "reshape", "permute", "transpose", "squeeze", "unsqueeze"}
        /\ op = "permute" => a1 \in Bijections(md.rank))
           => (out.isContiguous <=> Canonical(out))
    /\ (/\ ReturnedFrom("permute")
        /\ a1 \in Bijections(md.rank) \ {IotaVec(md.rank)}
        /\ md.rank >= 2 /\ Canonical(md) /\ Distinct(md.strides))
           => ~out.isContiguous

\* C4: NextReshape fails on a non-contiguous source (one whose flag is
\* cleared and whose strides are not canonical), whatever the new shape.
C4_ReshapeRejectsNonContiguous ==
    (op = "reshape" /\ ~md.isContiguous /\ ~Canonical(md)) => status # "ok"

\* C5: NextPermute with a non-empty vector that is no bijection of
\* 0..rank-1 throws and produces no metadata.
C5_PermuteRejectsNonBijection ==
    (op = "permute" /\ a1 # <<>> /\ a1 \notin Bijections(md.rank))
        => status \in {"invalid_argument", "out_of_range"}

\* C6: the full-range slice of a metadata without empty dimensions returns
\* a metadata of the same shape, strides and offset.
C6_FullSliceIsIdentity ==
    (op = "slice" /\ a1 = Zeros(md.shape) /\ a2 = md.shape
                  /\ \A i \in 1..md.rank : md.shape[i] >= 1)
        => /\ status = "ok"
           /\ out.shape = md.shape
           /\ out.strides = md.strides
           /\ out.offset = md.offset

\* C7: NextSqueeze with valid axes (each < rank, each of size 1, none
\* listed twice) returns the shape and the strides of m without exactly the
\* listed axes.
C7_SqueezeRemovesListedAxes ==
    (op = "squeeze" /\ a1 # <<>> /\ Distinct(a1)
         /\ \A k \in 1..Len(a1) : a1[k] < md.rank /\ md.shape[a1[k] + 1] = 1)
        => /\ status = "ok"
           /\ out.rank = md.rank - Len(a1)
           /\ out.shape = WithoutAxes(md.shape, Range(a1))
           /\ out.strides = WithoutAxes(md.strides, Range(a1))

\* C8: NextUnsqueeze that returns, given distinct axes in any order, has
\* rank(m) + |axes| dimensions, size 1 at every listed position, the
\* dimensions of m in their order at the others, and the offset of m.
C8_UnsqueezeAnyOrder ==
    (ReturnedFrom("unsqueeze") /\ Distinct(a1))
        => /\ out.rank = md.rank + Len(a1)
           /\ \A k \in 1..Len(a1) : a1[k] < out.rank /\ out.shape[a1[k] + 1] = 1
           /\ WithoutAxes(out.shape, Range(a1)) = md.shape
           /\ out.offset = md.offset

\* C9: squeezing the size-1 axes A (ascending, one or several) and
\* unsqueezing at A gives back the shape of m; so does squeezing without
\* axes and unsqueezing at the positions of the size-1 axes of m.
C9_SqueezeUnsqueezeRestoresShape ==
    /\ (op = "squeeze" /\ a1 # <<>> /\ Ascending(a1)
            /\ \A k \in 1..Len(a1) : a1[k] < md.rank /\ md.shape[a1[k] + 1] = 1)
           => /\ status = "ok"
              /\ NextUnsqueeze(out, a1).status = "ok"
              /\ NextUnsqueeze(out, a1).md.shape = md.shape
    /\ (op = "squeeze" /\ a1 = <<>>)
           => /\ status = "ok"
              /\ out.shape = WithoutAxes(md.shape, Range(UnitAxes(md.shape)))
              /\ NextUnsqueeze(out, UnitAxes(md.shape)).status = "ok"
              /\ NextUnsqueeze(out, UnitAxes(md.shape)).md.shape = md.shape

\* C10: permuting by a bijection p of 0..rank-1 and then by its inverse
\* gives back the shape, the strides and the offset of m.
C10_PermuteInverseRestores ==
    (op = "permute" /\ a1 \in Bijections(md.rank))
        => /\ status = "ok"
           /\ \A r \in NextPermute(out, Inverse(a1)) :
                  /\ r.status = "ok"
                  /\ r.md.shape = md.shape
                  /\ r.md.strides = md.strides
                  /\ r.md.offset = md.offset

\* The way the recorded call ended, as an outcome.
Outcome == [status |-> status, md |-> out]

\* C11: NextPermute given a non-empty bijection p returns shape[p[i]] and
\* strides[p[i]] at every position i and the offset of m; given the empty
\* permutation on rank >= 1 it returns the shape and the strides reversed
\* and the offset of m; and NextTranspose(m) ends the way NextPermute(m, {})
\* does.
C11_PermuteSelectsByPosition ==
    /\ (op = "permute" /\ a1 # <<>> /\ a1 \in Bijections(md.rank))
           => /\ status = "ok"
              /\ Len(out.shape) = md.rank
              /\ Len(out.strides) = md.rank
              /\ \A i \in 1..md.rank :
                     /\ out.shape[i] = md.shape[a1[i] + 1]
                     /\ out.strides[i] = md.strides[a1[i] + 1]
              /\ out.offset = md.offset
    /\ (op \in {"permute", "transpose"} /\ a1 = <<>> /\ md.rank >= 1)
           => /\ status = "ok"
              /\ Len(out.shape) = md.rank
              /\ Len(out.strides) = md.rank
              /\ \A i \in 1..md.rank :
                     /\ out.shape[i] = md.shape[md.rank + 1 - i]
                     /\ out.strides[i] = md.strides[md.rank + 1 - i]
              /\ out.offset = md.offset
    /\ op = "transpose" => Outcome \in NextPermute(md, <<>>)
    /\ (op = "permute" /\ a1 = <<>>) => Outcome \in NextTranspose(md)

\* A rank-3 metadata with distinct strides permuted by a cycle.
C11_Witness ==
    /\ op = "permute"
    /\ a1 = <<1, 2, 0>>
    /\ md.shape = <<2, 1, 2>>
    /\ md.strides = <<2, 2, 1>>
    /\ status = "ok"
    /\ out.shape = <<1, 2, 2>>
    /\ out.strides = <<2, 1, 2>>

\* The product of the entries of a vector, 1 for the empty vector.
Product(vec) ==
    LET F[i \in 0..Len(vec)] == IF i = 0 THEN 1 ELSE F[i - 1] * vec[i]
    IN  F[Len(vec)]

\* Row-major strides by their closed form: the stride of a dimension is
\* the product of the sizes of the dimensions after it.
RowMajor(shape) ==
    [i \in 1..Len(shape) |-> Product(SubSeq(shape, i + 1, Len(shape)))]

\* C12: NextReshape of a contiguous m fails exactly when the product of
\* newShape (1 for the empty shape) differs from the total size of m; when
\* it returns, the result has newShape, the total size of m, the row-major
\* strides of newShape and the offset of m.
C12_ReshapeIffSameSize ==
    (op = "reshape" /\ md.isContiguous /\ Canonical(md))
        => /\ status \in {"ok", "invalid_argument"}
           /\ status # "ok" <=> Product(a1) # md.totalSize
           /\ status = "ok"
                  => /\ out.shape = a1
                     /\ out.rank = Len(a1)
                     /\ out.totalSize = md.totalSize
                     /\ out.strides = RowMajor(a1)
                     /\ out.offset = md.offset

\* A contiguous 2x2 metadata reshaped to 2x1x2.
C12_Witness ==
    /\ op = "reshape"
    /\ md.isContiguous
    /\ md.shape = <<2, 2>>
    /\ md.strides = <<2, 1>>
    /\ a1 = <<2, 1, 2>>
    /\ status = "ok"
    /\ out.strides = <<2, 2, 1>>
    /\ out.totalSize = 4

\* The recorded call threw one of the two exceptions of the library.
Failed == status \in {"invalid_argument", "out_of_range"}

\* Both index vectors of the recorded slice have the rank's length.
SliceLengthsMatch == Len(a1) = md.rank /\ Len(a2) = md.rank

\* C13: NextSlice fails when start or end has not the rank's length, and
\* fails when some dimension i does not satisfy start[i] < end[i] <=
\* shape[i] (so every slice of a metadata with a zero-sized dimension
\* fails); otherwise it returns the shape end[i] - start[i], every entry of
\* which is at least 1.
C13_SliceFailsIffOutOfBounds ==
    op = "slice"
        => /\ ~SliceLengthsMatch => Failed
           /\ (/\ SliceLengthsMatch
               /\ \E i \in 1..md.rank : ~(a1[i] < a2[i] /\ a2[i] <= md.shape[i]))
                  => Failed
           /\ (\E i \in 1..md.rank : md.shape[i] = 0) => Failed
           /\ (/\ SliceLengthsMatch
               /\ \A i \in 1..md.rank : a1[i] < a2[i] /\ a2[i] <= md.shape[i])
                  => /\ status = "ok"
                     /\ Len(out.shape) = md.rank
                     /\ \A i \in 1..md.rank :
                            /\ out.shape[i] = a2[i] - a1[i]
                            /\ out.shape[i] >= 1

\* The second row of a 2x2 metadata.
C13_Witness ==
    /\ op = "slice"
    /\ md.shape = <<2, 2>>
    /\ a1 = <<1, 0>>
    /\ a2 = <<2, 2>>
    /\ status = "ok"
    /\ out.shape = <<1, 2>>

\* Position k of the recorded axes list names no size-1 dimension of md.
OffendingAxis(k) == a1[k] >= md.rank \/ md.shape[a1[k] + 1] # 1

\* C14: NextSqueeze given a non-empty axes list throws, returning no
\* metadata, whenever some listed axis is >= rank or names a dimension whose
\* size is not 1, wherever in the list that axis stands.
C14_SqueezeRejectsAnyBadAxis ==
    (op = "squeeze" /\ a1 # <<>> /\ \E k \in 1..Len(a1) : OffendingAxis(k))
        => status = "invalid_argument"

\* The offending axis stands second, after a valid one.
C14_Witness ==
    /\ op = "squeeze"
    /\ md.shape = <<1, 2>>
    /\ a1 = <<0, 1>>
    /\ ~OffendingAxis(1)
    /\ OffendingAxis(2)
    /\ status = "invalid_argument"

\* Shape, strides and rank agree in length and the total size is the
\* product of the shape: 1 for rank 0, 0 when a dimension is empty.
Consistent(m) ==
    /\ Len(m.shape) = m.rank
    /\ Len(m.strides) = m.rank
    /\ m.totalSize = Product(m.shape)
    /\ m.rank = 0 => m.totalSize = 1
    /\ (\E i \in 1..Len(m.shape) : m.shape[i] = 0) => m.totalSize = 0

\* C15: the metadata constructed from a shape, and the metadata returned
\* after any sequence of NextSlice, NextReshape, NextPermute, NextTranspose,
\* NextSqueeze and NextUnsqueeze calls that all returned, has shape and
\* strides of the rank's length and the product of its shape as total size
\* (1 for rank 0, 0 when a dimension is empty).
C15_ShapeStridesRankAgree ==
    /\ Holding => Consistent(md)
    /\ (~Holding /\ status = "ok") => Consistent(out)

\* The second call of a sequence: a permuted 1x2 metadata squeezed to rank 1.
C15_Witness ==
    /\ op = "squeeze"
    /\ md.shape = <<2, 1>>
    /\ md.strides = <<1, 2>>
    /\ a1 = <<1>>
    /\ status = "ok"
    /\ out.shape = <<2>>
    /\ out.strides = <<1>>
    /\ out.rank = 1
    /\ out.totalSize = 2

\* The sum of u[i] * v[i] over the positions of u.
RECURSIVE Dot(_, _)
Dot(u, v) == IF u = <<>> THEN 0 ELSE Head(u) * Head(v) + Dot(Tail(u), Tail(v))

\* The recorded multi-index lies within the shape of md.
ValidIndex == \A i \in 1..md.rank : a1[i] < md.shape[i]

\* C16: on a metadata of rank >= 1 with the canonical strides of its shape
\* and a multi-index idx within the shape, FlattenIndex is the sum of
\* idx[i] * strides[i] and UnflattenIndex of that sum is idx again.
C16_UnflattenInvertsFlatten ==
    /\ (op = "flatten" /\ md.rank >= 1 /\ Canonical(md) /\ ValidIndex)
           => status = "ok" /\ a2 = <<Dot(a1, md.strides)>>
    /\ (op = "unflatten" /\ md.rank >= 1 /\ Canonical(md) /\ ValidIndex)
           => status = "ok" /\ a2 = a1

\* The last element of a contiguous 2x1x2 metadata.
C16_Witness ==
    /\ op = "unflatten"
    /\ md.shape = <<2, 1, 2>>
    /\ md.strides = <<2, 2, 1>>
    /\ a1 = <<1, 0, 1>>
    /\ status = "ok"
    /\ a2 = <<1, 0, 1>>

\* The strides of md are a rearrangement of the canonical strides of a
\* rearrangement of its shape: md is a permuted contiguous metadata.
PermutedContiguous ==
    \E p \in Bijections(md.rank) :
        LET q == Inverse(p)
            base == [i \in 1..md.rank |-> md.shape[q[i] + 1]]
        IN  md.strides = [i \in 1..md.rank |-> ComputeStrides(base)[p[i] + 1]]

\* C17: on a metadata obtained from a contiguous one by NextPermute or
\* NextTranspose and a multi-index idx within its shape, UnflattenIndex of
\* FlattenIndex of idx is idx again.
C17_UnflattenInvertsFlattenPermuted ==
    (op = "unflatten" /\ PermutedContiguous /\ ValidIndex)
        => status = "ok" /\ a2 = a1

\* The strides obey the row-major recurrence on the shape: the last one is
\* 1 and each other one is the next stride times the next dimension.
RowMajorRecurrence(strides, shape) ==
    /\ Len(strides) = Len(shape)
    /\ \A i \in 1..Len(shape) :
           strides[i] = IF i = Len(shape) THEN 1 ELSE strides[i + 1] * shape[i + 1]

\* C18: for every shape ComputeStrides returns the row-major strides (the
\* last is 1, each other is the next stride times the next dimension) and
\* the empty sequence for the empty shape; the fixed-rank forms of
\* ComputeStrides and ComputeSize return what the variable-rank forms
\* return; and the shape {2,3,4} has strides {12,4,1} and size 24.
C18_StridesRowMajorBothForms ==
    /\ op = "compute"
           => /\ RowMajorRecurrence(out.strides, md.shape)
              /\ out.strides = RowMajor(md.shape)
              /\ md.shape = <<>> => out.strides = <<>>
              /\ out.totalSize = Product(md.shape)
              /\ a1 = out.strides
              /\ a2 = <<out.totalSize>>
              /\ ComputeStrides(<<2, 3, 4>>) = <<12, 4, 1>>
              /\ ComputeStridesStatic(<<2, 3, 4>>) = <<12, 4, 1>>
              /\ ComputeSize(<<2, 3, 4>>) = 24
              /\ ComputeSizeStatic(<<2, 3, 4>>) = 24

\* Both forms computed on the shape of a permuted 1x2x2 metadata.
C18_Witness ==
    /\ op = "compute"
    /\ md.shape = <<2, 2, 1>>
    /\ md.strides = <<2, 1, 4>>
    /\ a1 = <<2, 1, 1>>
    /\ a2 = <<4>>
    /\ out.strides = <<2, 1, 1>>
    /\ out.totalSize = 4

\* C19: NextTranspose and NextPermute with the empty permutation, applied
\* to a rank-0 metadata, return normally a rank-0 metadata with empty shape,
\* empty strides, total size 1 and the offset of m; NextReverse touches no
\* element of the empty vector, its right index not having wrapped.
C19_ScalarTransposeIsSafe ==
    (op \in {"permute", "transpose"} /\ a1 = <<>> /\ md.rank = 0)
        => /\ ~NextReverseWraps(md.shape)
           /\ status = "ok"
           /\ out.rank = 0
           /\ out.shape = <<>>
           /\ out.strides = <<>>
           /\ out.totalSize = 1
           /\ out.offset = md.offset

====
